---------------------------- MODULE Spec2Model ----------------------------
(***************************************************************************)
(* Kuhn poker environment (ai/environment.py), tabular Monte Carlo agent   *)
(* (ai/agent.py), the self-play training loop (ai/train.py) and the        *)
(* evaluation against a random opponent (ai/evaluation.py).                *)
(*                                                                         *)
(* The specifications:                                                     *)
(*   Spec       a caller that drives KuhnPokerEnv directly with reset()    *)
(*              and step(a) for any string a, legal or not;                *)
(*   SpecTrain  train_self_play(): run_episode() in a loop over two        *)
(*              TabularAgents, then the exploration decay;                 *)
(*   SpecAgent  a caller that drives one TabularAgent directly with        *)
(*              update(), select_action(), greedy_policy(), value_table(); *)
(*   SpecMain   the programs train.py and evaluation.py: training, then    *)
(*              play_hand() or the evaluation with the greedy policies.    *)
(*                                                                         *)
(* Conventions.  A Python str that is a history or a key is the sequence   *)
(* of its characters.  Optional[T] is a sequence of length at most one:    *)
(* None is << >> and a present value x is <<x>>.  A Python dict is a       *)
(* function whose DOMAIN is the dict's key set.  The floats +1.0, 0.0 and  *)
(* -1.0 are the integers 1, 0, -1; other reals are exact fractions         *)
(* <<numerator, denominator>> in lowest terms with denominator > 0.  The   *)
(* pseudo-random generators are nondeterministic choices.                  *)
(***************************************************************************)
EXTENDS Integers, Sequences, FiniteSets, TLC

VARIABLES
    player_cards,    \* KuhnPokerEnv.player_cards: <<card of seat 0, card of seat 1>>
    history,         \* KuhnPokerEnv.history
    current_player,  \* KuhnPokerEnv.current_player
    done,            \* KuhnPokerEnv._done
    call,            \* the last call made on the environment and its arguments
    ret,             \* what that call returned, or the exception it raised
    agents,          \* train_self_play: agents[0], agents[1]
    wins,            \* train_self_play: wins[0], wins[1]
    episode,         \* train_self_play: number of episodes completed
    pc,              \* position in train_self_play / run_episode
    trajectories,    \* run_episode: trajectories[0], trajectories[1]
    observation,     \* run_episode: the local variable observation
    winner,          \* run_episode: the local variable winner (info.get("winner"))
    credit,          \* run_episode: number of update() calls the credit loops have made
    updates,         \* the Agent.update calls made in the current episode, in order
    failure,         \* the exception that ended train_self_play, "" if none
    params,          \* train_self_play's arguments
    policies,        \* main(): the greedy policies taken from the trained agents
    evalst           \* evaluate_policy_against_random(): seat, games played, wins

envVars == <<player_cards, history, current_player, done, call, ret>>
mainVars == <<policies, evalst>>
trainVars == <<agents, wins, episode, pc, trajectories, observation, winner,
               credit, updates, failure, params, policies, evalst>>
vars == <<player_cards, history, current_player, done, call, ret,
          agents, wins, episode, pc, trajectories, observation, winner,
          credit, updates, failure, params, policies, evalst>>

-----------------------------------------------------------------------------
(* Optional values *)

None == << >>

Some(x) == <<x>>

-----------------------------------------------------------------------------
(* ai/environment.py *)

\* _CARD_ORDER = {"J": 0, "Q": 1, "K": 2}
CARD_ORDER == [c \in {"J", "Q", "K"} |-> CASE c = "J" -> 0 [] c = "Q" -> 1 [] c = "K" -> 2]

\* KuhnPokerEnv.cards
cards == <<"J", "Q", "K">>

\* The strings a caller may pass to step(): the four actions and one that is
\* no action at all.
ActionInputs == {"check", "bet", "call", "fold", "raise"}

\* str(player) for a seat id
IntStr(n) == IF n = 0 THEN "0" ELSE "1"

\* Observation(player, card, history)
Observation(p, c, h) == [player |-> p, card |-> c, history |-> h]

\* a key that leaves the history out, so that states of one seat and card collide
KeyWithoutHistory(obs) == <<"P", IntStr(obs.player), ":", obs.card, ":">>

\* Observation.key(): f"P{self.player}:{self.card}:{self.history}"
Key(obs) == <<"P", IntStr(obs.player), ":", obs.card, ":">> \o obs.history

\* random.Random.shuffle(deck): every ordering of the deck
Shuffles(deck) ==
    {s \in [1..Len(deck) -> {deck[i] : i \in 1..Len(deck)}] :
        \A i, j \in 1..Len(deck) : i # j => s[i] # s[j]}

\* legal_actions() with "b" listed among the histories that allow check/bet
LegalActionsBetAfterBet(h, d) ==
    IF d THEN << >>
    ELSE IF h \in {<< >>, <<"p">>, <<"b">>} THEN <<"check", "bet">>
    ELSE IF h \in {<<"p", "b">>} THEN <<"call", "fold">>
    ELSE << >>

\* legal_actions() with "p" listed among the histories that allow call/fold
LegalActionsCallAfterCheck(h, d) ==
    IF d THEN << >>
    ELSE IF h \in {<< >>} THEN <<"check", "bet">>
    ELSE IF h \in {<<"p">>, <<"b">>, <<"p", "b">>} THEN <<"call", "fold">>
    ELSE << >>

\* legal_actions() that keeps the opening actions open after every history
LegalActionsNeverClosing(h, d) ==
    IF d THEN << >> ELSE <<"check", "bet">>

\* KuhnPokerEnv.legal_actions(), as a tuple in the code's order
LegalActions(h, d) ==
    IF d THEN << >>
    ELSE IF h \in {<< >>, <<"p">>} THEN <<"check", "bet">>
    ELSE IF h \in {<<"b">>, <<"p", "b">>} THEN <<"call", "fold">>
    ELSE << >>

\* x in tuple
InTuple(x, t) == \E i \in 1..Len(t) : t[i] = x

\* KuhnPokerEnv._compare_cards(): the index of the winning player.
\* _CARD_ORDER[card] raises KeyError for a card that is not in the deck (the
\* "" cards an environment holds before its first reset()); CompareRaises
\* says so.
CompareRaises(pcards) == pcards[1] \notin DOMAIN CARD_ORDER \/ pcards[2] \notin DOMAIN CARD_ORDER

\* _compare_cards() with the comparison turned round
CompareCardsReversed(pcards) ==
    LET strength_a == CARD_ORDER[pcards[1]]
        strength_b == CARD_ORDER[pcards[2]]
    IN  IF strength_a = strength_b THEN 0
        ELSE IF strength_a < strength_b THEN 0 ELSE 1

CompareCards(pcards) ==
    LET strength_a == CARD_ORDER[pcards[1]]
        strength_b == CARD_ORDER[pcards[2]]
    IN  IF strength_a = strength_b THEN 0
        ELSE IF strength_a > strength_b THEN 0 ELSE 1

\* _observation() that reads the other seat's card
EnvObservationOpponentCard(cp, pcards, h) == Observation(cp, pcards[2 - cp], h)

\* KuhnPokerEnv._observation()
EnvObservation(cp, pcards, h) == Observation(cp, pcards[cp + 1], h)

\* step() whose fold branch settles a dealt hand by the cards, like call
StepBranchFoldCompares(action, h, cp, pcards) ==
    IF action = "check" THEN
        LET h2 == Append(h, "p") IN
        IF h2 = <<"p", "p">> THEN
            LET w == CompareCards(pcards) IN
            [history |-> h2, winner |-> Some(w), reward |-> IF w = cp THEN 1 ELSE -1]
        ELSE [history |-> h2, winner |-> None, reward |-> 0]
    ELSE IF action = "bet" THEN
        [history |-> Append(h, "b"), winner |-> None, reward |-> 0]
    ELSE IF action = "fold" /\ CompareRaises(pcards) THEN
        [history |-> Append(h, "f"), winner |-> Some(1 - cp), reward |-> -1]
    ELSE
        LET w == CompareCards(pcards) IN
        [history |-> Append(h, IF action = "call" THEN "c" ELSE "f"),
         winner |-> Some(w), reward |-> IF w = cp THEN 1 ELSE -1]

\* step() whose call branch records no winner, so the hand goes on
StepBranchCallGoesOn(action, h, cp, pcards) ==
    IF action = "check" THEN
        LET h2 == Append(h, "p") IN
        IF h2 = <<"p", "p">> THEN
            LET w == CompareCards(pcards) IN
            [history |-> h2, winner |-> Some(w), reward |-> IF w = cp THEN 1 ELSE -1]
        ELSE [history |-> h2, winner |-> None, reward |-> 0]
    ELSE IF action = "bet" THEN
        [history |-> Append(h, "b"), winner |-> None, reward |-> 0]
    ELSE IF action = "call" THEN
        [history |-> Append(h, "c"), winner |-> None, reward |-> 0]
    ELSE
        [history |-> Append(h, "f"), winner |-> Some(1 - cp), reward |-> -1]

\* step() whose rewards are taken from seat 0's side whoever acted
StepBranchRewardSeat0(action, h, cp, pcards) ==
    IF action = "check" THEN
        LET h2 == Append(h, "p") IN
        IF h2 = <<"p", "p">> THEN
            LET w == CompareCards(pcards) IN
            [history |-> h2, winner |-> Some(w), reward |-> IF w = 0 THEN 1 ELSE -1]
        ELSE [history |-> h2, winner |-> None, reward |-> 0]
    ELSE IF action = "bet" THEN
        [history |-> Append(h, "b"), winner |-> None, reward |-> 0]
    ELSE IF action = "call" THEN
        LET w == CompareCards(pcards) IN
        [history |-> Append(h, "c"), winner |-> Some(w), reward |-> IF w = 0 THEN 1 ELSE -1]
    ELSE
        [history |-> Append(h, "f"), winner |-> Some(1 - cp), reward |-> -1]

\* The action branches of step() (lines 85-104) for a legal action: the new
\* history, the winner (None while the hand goes on) and the reward.
StepBranch(action, h, cp, pcards) ==
    IF action = "check" THEN
        LET h2 == Append(h, "p") IN
        IF h2 = <<"p", "p">> THEN
            LET w == CompareCards(pcards) IN
            [history |-> h2, winner |-> Some(w), reward |-> IF w = cp THEN 1 ELSE -1]
        ELSE [history |-> h2, winner |-> None, reward |-> 0]
    ELSE IF action = "bet" THEN
        [history |-> Append(h, "b"), winner |-> None, reward |-> 0]
    ELSE IF action = "call" THEN
        LET w == CompareCards(pcards) IN
        [history |-> Append(h, "c"), winner |-> Some(w), reward |-> IF w = cp THEN 1 ELSE -1]
    ELSE \* action = "fold"
        [history |-> Append(h, "f"), winner |-> Some(1 - cp), reward |-> -1]

\* Whether the branch of step() taken for a legal action calls _compare_cards()
BranchCompares(action, h) ==
    \/ action = "check" /\ Append(h, "p") = <<"p", "p">>
    \/ action = "call"

\* KuhnPokerEnv.reset(seed): a fresh deal.  Reseeding only fixes which of the
\* orderings the generator produces, so both forms of the call draw from the
\* same set of deals.
EnvReset(seed) ==
    \E deck \in Shuffles(cards) :
        /\ player_cards' = <<deck[1], deck[2]>>
        /\ history' = << >>
        /\ current_player' = 0
        /\ done' = FALSE
        /\ call' = [op |-> "reset", seed |-> seed]
        /\ ret' = [kind |-> "return",
                   obs |-> Some(EnvObservation(0, <<deck[1], deck[2]>>, << >>))]

\* step() that tests the action against legal_actions() before it tests _done
StepGuardLegalFirst(action, h, d) ==
    IF ~InTuple(action, LegalActions(h, d)) THEN "ValueError"
    ELSE IF d THEN "RuntimeError"
    ELSE ""

\* The checks that open step() (lines 78-83): the exception raised, "" if none
StepGuard(action, h, d) ==
    IF d THEN "RuntimeError"
    ELSE IF ~InTuple(action, LegalActions(h, d)) THEN "ValueError"
    ELSE ""

\* step() that leaves current_player alone when the hand goes on
StepReturnKeepsTurn(b, cp, pcards) ==
    IF b.winner # None THEN
        [done |-> TRUE, current_player |-> cp,
         ret |-> [kind |-> "return", obs |-> None, reward |-> b.reward, done |-> TRUE,
                  info |-> [winner |-> b.winner, history |-> b.history]]]
    ELSE
        [done |-> FALSE, current_player |-> cp,
         ret |-> [kind |-> "return",
                  obs |-> Some(EnvObservation(cp, pcards, b.history)),
                  reward |-> b.reward, done |-> FALSE,
                  info |-> [winner |-> None, history |-> b.history]]]

\* step() that returns no Observation although the hand goes on
StepReturnDropsObservation(b, cp, pcards) ==
    IF b.winner # None THEN
        [done |-> TRUE, current_player |-> cp,
         ret |-> [kind |-> "return", obs |-> None, reward |-> b.reward, done |-> TRUE,
                  info |-> [winner |-> b.winner, history |-> b.history]]]
    ELSE
        [done |-> FALSE, current_player |-> 1 - cp,
         ret |-> [kind |-> "return", obs |-> None,
                  reward |-> b.reward, done |-> FALSE,
                  info |-> [winner |-> None, history |-> b.history]]]

\* The end of step() (lines 106-112) for the outcome b of the action's branch:
\* the new _done and current_player, and the tuple returned.
StepReturn(b, cp, pcards) ==
    IF b.winner # None THEN
        [done |-> TRUE, current_player |-> cp,
         ret |-> [kind |-> "return", obs |-> None, reward |-> b.reward, done |-> TRUE,
                  info |-> [winner |-> b.winner, history |-> b.history]]]
    ELSE
        [done |-> FALSE, current_player |-> 1 - cp,
         ret |-> [kind |-> "return",
                  obs |-> Some(EnvObservation(1 - cp, pcards, b.history)),
                  reward |-> b.reward, done |-> FALSE,
                  info |-> [winner |-> None, history |-> b.history]]]

\* KuhnPokerEnv.step(action)
EnvStep(action) ==
    /\ call' = [op |-> "step", action |-> action, player |-> current_player]
    /\ IF StepGuard(action, history, done) # "" THEN
            /\ ret' = [kind |-> "raise", err |-> StepGuard(action, history, done)]
            /\ UNCHANGED <<player_cards, history, current_player, done>>
       ELSE IF BranchCompares(action, history) /\ CompareRaises(player_cards) THEN
            \* the history was extended before _compare_cards() raised
            /\ history' = Append(history, IF action = "check" THEN "p" ELSE "c")
            /\ ret' = [kind |-> "raise", err |-> "KeyError"]
            /\ UNCHANGED <<player_cards, current_player, done>>
       ELSE
            LET b == StepBranch(action, history, current_player, player_cards)
                r == StepReturn(b, current_player, player_cards)
            IN  /\ history' = b.history
                /\ player_cards' = player_cards
                /\ done' = r.done
                /\ current_player' = r.current_player
                /\ ret' = r.ret

-----------------------------------------------------------------------------
(* A caller driving the environment directly *)

\* KuhnPokerEnv.__init__ and the state of train_self_play's variables while
\* only the environment is driven
EnvInit ==
    /\ player_cards = <<"", "">>
    /\ history = << >>
    /\ current_player = 0
    /\ done = FALSE
    /\ call = [op |-> "init"]
    /\ ret = [kind |-> "none"]

Idle ==
    /\ agents = << >>
    /\ wins = <<0, 0>>
    /\ episode = 0
    /\ pc = "idle"
    /\ trajectories = << >>
    /\ observation = None
    /\ winner = None
    /\ credit = 0
    /\ updates = << >>
    /\ failure = ""
    /\ policies = << >>
    /\ evalst = << >>
    /\ params = [episodes |-> 0]

Init == EnvInit /\ Idle

Reset == \E seed \in {None, Some(0)} : EnvReset(seed) /\ UNCHANGED trainVars

Step == \E action \in ActionInputs : EnvStep(action) /\ UNCHANGED trainVars

Next == Reset \/ Step

Spec == Init /\ [][Next]_vars

-----------------------------------------------------------------------------
(* Exact arithmetic on fractions <<numerator, denominator>> *)

Abs(x) == IF x < 0 THEN -x ELSE x

RECURSIVE GCD(_, _)
GCD(a, b) == IF b = 0 THEN a ELSE GCD(b, a % b)

\* n/d in lowest terms with a positive denominator (d # 0)
Frac(n, d) ==
    LET g == GCD(Abs(n), Abs(d))
        sgn == IF d < 0 THEN -1 ELSE 1
    IN  <<(sgn * n) \div g, (sgn * d) \div g>>

Zero == Frac(0, 1)

One == Frac(1, 1)

FracAdd(x, y) == Frac(x[1] * y[2] + y[1] * x[2], x[2] * y[2])

FracSub(x, y) == Frac(x[1] * y[2] - y[1] * x[2], x[2] * y[2])

FracMul(x, y) == Frac(x[1] * y[1], x[2] * y[2])

\* x / n for an integer n > 0
FracDivInt(x, n) == Frac(x[1], x[2] * n)

FracLess(x, y) == x[1] * y[2] < y[1] * x[2]

\* Python's max(x, y): y only if it is greater than x
FracMax(x, y) == IF FracLess(x, y) THEN y ELSE x

-----------------------------------------------------------------------------
(* Python dicts *)

EmptyDict == [k \in {} |-> 0]

\* d.get(k, default)
DictGet(d, k, default) == IF k \in DOMAIN d THEN d[k] ELSE default

\* d[k] = v
DictSet(d, k, v) == [x \in DOMAIN d \cup {k} |-> IF x = k THEN v ELSE d[x]]

\* d[k] on a defaultdict(dict): a missing key is inserted with an empty dict
DefaultDictTouch(d, k) == IF k \in DOMAIN d THEN d ELSE DictSet(d, k, EmptyDict)

-----------------------------------------------------------------------------
(* ai/agent.py *)

\* TabularAgent(epsilon).  values[k] and counts[k] are the inner dicts of
\* self._values and self._counts; order[k] lists the actions of values[k] in
\* the order they were inserted, which is the order Python iterates them in.
TabularAgent(epsilon) ==
    [epsilon |-> epsilon, values |-> EmptyDict, counts |-> EmptyDict, order |-> EmptyDict]

\* self._values[state_key] on the defaultdict: a missing key is inserted
\* with an empty dict
TouchValues(agent, state_key) ==
    IF state_key \in DOMAIN agent.values THEN agent
    ELSE [agent EXCEPT !.values = DictSet(agent.values, state_key, EmptyDict),
                       !.order = DictSet(agent.order, state_key, << >>)]

\* The loop of select_action() replacing the best action on an equal value
GreedyScanLastTie(values, legal, i, best) ==
    LET RECURSIVE scan(_, _)
        scan(j, b) ==
            IF j > Len(legal) THEN b
            ELSE LET action_value == DictGet(values, legal[j], Zero) IN
                 IF ~FracLess(action_value, b.value)
                 THEN scan(j + 1, [action |-> legal[j], value |-> action_value])
                 ELSE scan(j + 1, b)
    IN  scan(i, best)

\* The loop of select_action() over legal[i..]: the best action so far and
\* its value, replaced only by a strictly greater value.
RECURSIVE GreedyScan(_, _, _, _)
GreedyScan(values, legal, i, best) ==
    IF i > Len(legal) THEN best
    ELSE LET action_value == DictGet(values, legal[i], Zero) IN
         IF FracLess(best.value, action_value)
         THEN GreedyScan(values, legal, i + 1, [action |-> legal[i], value |-> action_value])
         ELSE GreedyScan(values, legal, i + 1, best)

\* The exploiting branch of select_action(), for the state's dict of values
GreedyChoice(values, legal) ==
    GreedyScan(values, legal, 2,
               [action |-> legal[1], value |-> DictGet(values, legal[1], Zero)]).action

\* TabularAgent.select_action(state_key, legal_actions): the possible
\* outcomes.  random.random() lies in [0, 1), so the exploring branch can be
\* taken iff epsilon > 0 and the exploiting branch iff epsilon < 1; the
\* exploiting branch reads self._values[state_key], which on the defaultdict
\* inserts a missing state_key.
SelectAction(agent, state_key, legal) ==
    IF Len(legal) = 0
    THEN {[err |-> "ValueError", action |-> "", explored |-> FALSE, agent |-> agent]}
    ELSE
        (IF FracLess(Zero, agent.epsilon)
         THEN {[err |-> "", action |-> legal[i], explored |-> TRUE, agent |-> agent] :
                  i \in 1..Len(legal)}
         ELSE {})
        \cup
        (IF FracLess(agent.epsilon, One)
         THEN LET touched == TouchValues(agent, state_key) IN
              {[err |-> "", action |-> GreedyChoice(touched.values[state_key], legal),
                explored |-> FALSE, agent |-> touched]}
         ELSE {})

\* update() that divides the step by visits + 1
UpdateOffByOne(agent, state_key, action, reward) ==
    LET counts == DefaultDictTouch(agent.counts, state_key)[state_key]
        values == DefaultDictTouch(agent.values, state_key)[state_key]
        order == DictGet(agent.order, state_key, << >>)
        visits == DictGet(counts, action, 0) + 1
        previous == DictGet(values, action, Zero)
        updated == FracAdd(previous,
                           FracDivInt(FracSub(Frac(reward, 1), previous), visits + 1))
    IN  [agent EXCEPT
            !.counts = DictSet(agent.counts, state_key, DictSet(counts, action, visits)),
            !.values = DictSet(agent.values, state_key, DictSet(values, action, updated)),
            !.order = DictSet(agent.order, state_key,
                              IF action \in DOMAIN values THEN order
                              ELSE Append(order, action))]

\* TabularAgent.update(state_key, action, reward)
Update(agent, state_key, action, reward) ==
    LET counts == DefaultDictTouch(agent.counts, state_key)[state_key]
        values == DefaultDictTouch(agent.values, state_key)[state_key]
        order == DictGet(agent.order, state_key, << >>)
        visits == DictGet(counts, action, 0) + 1
        previous == DictGet(values, action, Zero)
        updated == FracAdd(previous, FracDivInt(FracSub(Frac(reward, 1), previous), visits))
    IN  [agent EXCEPT
            !.counts = DictSet(agent.counts, state_key, DictSet(counts, action, visits)),
            !.values = DictSet(agent.values, state_key, DictSet(values, action, updated)),
            !.order = DictSet(agent.order, state_key,
                              IF action \in DOMAIN values THEN order
                              ELSE Append(order, action))]

\* max(action_values.items(), key=lambda item: item[1]) over the items from
\* the i-th on: the first item of the greatest value
RECURSIVE MaxItem(_, _, _, _)
MaxItem(action_values, order, i, best) ==
    IF i > Len(order) THEN best
    ELSE IF FracLess(action_values[best], action_values[order[i]])
         THEN MaxItem(action_values, order, i + 1, order[i])
         ELSE MaxItem(action_values, order, i + 1, best)

\* TabularAgent.greedy_policy(): states with an empty dict are left out
GreedyPolicy(agent) ==
    [k \in {s \in DOMAIN agent.values : DOMAIN agent.values[s] # {}} |->
        MaxItem(agent.values[k], agent.order[k], 2, agent.order[k][1])]

\* TabularAgent.value_table(): a new dict holding a copy of every inner dict
ValueTable(agent) == [k \in DOMAIN agent.values |-> agent.values[k]]

-----------------------------------------------------------------------------
(* ai/train.py *)

\* Largest number of episodes train_self_play() is asked for
MaxEpisodes == 2

\* The arguments train_self_play() is called with
Epsilons == {Frac(0, 1), Frac(1, 2), Frac(1, 1)}

Decays == {Frac(1, 2), Frac(1, 1)}

Floors == {Frac(0, 1), Frac(1, 4)}

\* Credit loops that reach only the last pair each seat recorded
PendingUpdatesLastOnly(trajs) ==
    [i \in 1..(IF Len(trajs[1]) > 0 THEN 1 ELSE 0) |->
        [pid |-> 0, state_key |-> trajs[1][Len(trajs[1])][1],
         action |-> trajs[1][Len(trajs[1])][2]]]
    \o
    [i \in 1..(IF Len(trajs[2]) > 0 THEN 1 ELSE 0) |->
        [pid |-> 1, state_key |-> trajs[2][Len(trajs[2])][1],
         action |-> trajs[2][Len(trajs[2])][2]]]

\* Credit loops that hand each seat's pairs to the other seat's agent
PendingUpdatesSwappedSeats(trajs) ==
    [i \in 1..Len(trajs[1]) |->
        [pid |-> 1, state_key |-> trajs[1][i][1], action |-> trajs[1][i][2]]]
    \o
    [i \in 1..Len(trajs[2]) |->
        [pid |-> 0, state_key |-> trajs[2][i][1], action |-> trajs[2][i][2]]]

\* The update() calls the credit loops of run_episode() make, in order: for
\* pid in (0, 1), for each pair of trajectories[pid]
PendingUpdates(trajs) ==
    [i \in 1..Len(trajs[1]) |->
        [pid |-> 0, state_key |-> trajs[1][i][1], action |-> trajs[1][i][2]]]
    \o
    [i \in 1..Len(trajs[2]) |->
        [pid |-> 1, state_key |-> trajs[2][i][1], action |-> trajs[2][i][2]]]

\* final_reward that gives the loser 0.0 instead of -1.0
FinalRewardLoserZero(pid, w) == IF pid = w THEN 1 ELSE 0

\* final_reward = 1.0 if pid == winner else -1.0
FinalReward(pid, w) == IF pid = w THEN 1 ELSE -1

\* train_self_play(): the environment and the two agents are constructed
TrainInit ==
    /\ EnvInit
    /\ params \in [episodes : 1..MaxEpisodes, epsilon : Epsilons,
                    epsilon_decay : Decays, minimum_epsilon : Floors]
    /\ agents = <<TabularAgent(params.epsilon), TabularAgent(params.epsilon)>>
    /\ wins = <<0, 0>>
    /\ episode = 0
    /\ pc = "start"
    /\ trajectories = << >>
    /\ observation = None
    /\ winner = None
    /\ credit = 0
    /\ updates = << >>
    /\ failure = ""
    /\ policies = << >>
    /\ evalst = << >>

\* The head of train_self_play()'s loop and the head of run_episode(): the
\* trajectories are emptied and the environment is reset.
RunEpisode ==
    /\ pc = "start"
    /\ episode < params.episodes
    /\ EnvReset(None)
    /\ trajectories' = <<<< >>, << >>>>
    /\ observation' = ret'.obs
    /\ winner' = None
    /\ credit' = 0
    /\ updates' = << >>
    /\ pc' = "act"
    /\ UNCHANGED <<agents, wins, episode, failure, params>>
    /\ UNCHANGED mainVars

\* One pass of run_episode()'s while loop: select, record, step, and the
\* tests on what step() returned.
EpisodeAct ==
    /\ pc = "act"
    /\ LET player == observation[1].player
           state_key == Key(observation[1])
           legal_actions == LegalActions(history, done)
       IN  \E sel \in SelectAction(agents[player + 1], state_key, legal_actions) :
             IF sel.err # "" THEN
                /\ failure' = "NoLegalActions"
                /\ pc' = "failed"
                /\ UNCHANGED <<envVars, agents, trajectories, observation, winner>>
             ELSE
                /\ agents' = [agents EXCEPT ![player + 1] = sel.agent]
                /\ trajectories' = [trajectories EXCEPT
                        ![player + 1] = Append(@, <<state_key, sel.action>>)]
                /\ EnvStep(sel.action)
                /\ IF ret'.kind = "raise" THEN
                        /\ failure' = ret'.err
                        /\ pc' = "failed"
                        /\ UNCHANGED <<observation, winner>>
                   ELSE
                        /\ observation' = ret'.obs
                        /\ IF ret'.done THEN
                                /\ winner' = ret'.info.winner
                                /\ IF ret'.info.winner = None
                                   THEN failure' = "MissingWinner" /\ pc' = "failed"
                                   ELSE failure' = failure /\ pc' = "credit"
                           ELSE
                                /\ winner' = winner
                                /\ IF ret'.obs = None
                                   THEN failure' = "NoneObservation" /\ pc' = "failed"
                                   ELSE failure' = failure /\ pc' = "act"
    /\ UNCHANGED <<wins, episode, credit, updates, params>>
    /\ UNCHANGED mainVars

\* One update() call of run_episode()'s credit loops; after the last one
\* run_episode() returns the winner.
CreditUpdate ==
    /\ pc = "credit"
    /\ LET pending == PendingUpdates(trajectories)
           u == pending[credit + 1]
           final_reward == FinalReward(u.pid, winner[1])
       IN  /\ credit < Len(pending)
           /\ agents' = [agents EXCEPT
                   ![u.pid + 1] = Update(@, u.state_key, u.action, final_reward)]
           /\ updates' = Append(updates, [pid |-> u.pid, state_key |-> u.state_key,
                                          action |-> u.action, reward |-> final_reward])
           /\ credit' = credit + 1
           /\ pc' = IF credit + 1 = Len(pending) THEN "after" ELSE "credit"
    /\ UNCHANGED <<envVars, wins, episode, trajectories, observation, winner,
                   failure, params>>
    /\ UNCHANGED mainVars

\* The decay without its floor
DecayNoFloor(epsilon, epsilon_decay, minimum_epsilon) == FracMul(epsilon, epsilon_decay)

\* The decay with the floor applied before the multiplication
DecayFloorFirst(epsilon, epsilon_decay, minimum_epsilon) ==
    FracMul(FracMax(minimum_epsilon, epsilon), epsilon_decay)

\* epsilon after one episode: max(minimum_epsilon, agent.epsilon * epsilon_decay)
Decay(epsilon, epsilon_decay, minimum_epsilon) ==
    FracMax(minimum_epsilon, FracMul(epsilon, epsilon_decay))

\* train_self_play() after run_episode() returned: the win is counted and
\* both agents' exploration rates decay.
AfterEpisode ==
    /\ pc = "after"
    /\ wins' = [wins EXCEPT ![winner[1] + 1] = @ + 1]
    /\ agents' = [i \in 1..2 |->
            [agents[i] EXCEPT !.epsilon =
                Decay(@, params.epsilon_decay, params.minimum_epsilon)]]
    /\ episode' = episode + 1
    /\ pc' = "start"
    /\ UNCHANGED <<envVars, trajectories, observation, winner, credit, updates,
                   failure, params>>
    /\ UNCHANGED mainVars

\* train_self_play() returns after the last episode
TrainReturn ==
    /\ pc = "start"
    /\ episode >= params.episodes
    /\ pc' = "done"
    /\ UNCHANGED <<envVars, agents, wins, episode, trajectories, observation, winner,
                   credit, updates, failure, params>>
    /\ UNCHANGED mainVars

TrainNext == RunEpisode \/ EpisodeAct \/ CreditUpdate \/ AfterEpisode \/ TrainReturn

SpecTrain == TrainInit /\ [][TrainNext]_vars

-----------------------------------------------------------------------------
(* A caller driving one TabularAgent directly *)

\* Largest number of update() calls made on the agent
MaxUpdates == 3

\* The state keys, actions, rewards and legal-action tuples the caller passes
AgentKeys == {Key(Observation(0, "J", << >>)), Key(Observation(1, "K", <<"b">>))}

AgentActions == {"check", "bet"}

AgentRewards == {1, -1}

LegalInputs == {<< >>, <<"check", "bet">>, <<"bet", "check">>, <<"call", "fold">>, <<"bet">>}

\* TabularAgent(epsilon) is constructed; no environment is driven
AgentInit ==
    /\ player_cards = <<"", "">>
    /\ history = << >>
    /\ current_player = 0
    /\ done = FALSE
    /\ call = [op |-> "init"]
    /\ ret = [kind |-> "none"]
    /\ params \in [epsilon : Epsilons]
    /\ agents = <<TabularAgent(params.epsilon)>>
    /\ wins = <<0, 0>>
    /\ episode = 0
    /\ pc = "agent"
    /\ trajectories = << >>
    /\ observation = None
    /\ winner = None
    /\ credit = 0
    /\ updates = << >>
    /\ failure = ""
    /\ policies = << >>
    /\ evalst = << >>

agentFrame == <<player_cards, history, current_player, done, wins, episode, pc,
                trajectories, observation, winner, credit, failure, params,
                policies, evalst>>

\* agent.update(state_key, action, reward)
AgentUpdate ==
    /\ Len(updates) < MaxUpdates
    /\ \E state_key \in AgentKeys, action \in AgentActions, reward \in AgentRewards :
          /\ agents' = <<Update(agents[1], state_key, action, reward)>>
          /\ updates' = Append(updates, [pid |-> 0, state_key |-> state_key,
                                         action |-> action, reward |-> reward])
          /\ call' = [op |-> "update", state_key |-> state_key, action |-> action,
                      reward |-> reward]
          /\ ret' = [kind |-> "return"]
    /\ UNCHANGED agentFrame

\* agent.select_action(state_key, legal_actions)
AgentSelect ==
    /\ \E state_key \in AgentKeys, legal \in LegalInputs :
          \E sel \in SelectAction(agents[1], state_key, legal) :
              /\ agents' = <<sel.agent>>
              /\ call' = [op |-> "select_action", state_key |-> state_key,
                          legal |-> legal, explored |-> sel.explored]
              /\ ret' = IF sel.err # "" THEN [kind |-> "raise", err |-> sel.err]
                        ELSE [kind |-> "return", action |-> sel.action]
    /\ UNCHANGED <<agentFrame, updates>>

\* agent.greedy_policy()
AgentGreedyPolicy ==
    /\ call' = [op |-> "greedy_policy"]
    /\ ret' = [kind |-> "return", policy |-> GreedyPolicy(agents[1])]
    /\ UNCHANGED <<agentFrame, updates, agents>>

\* agent.value_table()
AgentValueTable ==
    /\ call' = [op |-> "value_table"]
    /\ ret' = [kind |-> "return", table |-> ValueTable(agents[1])]
    /\ UNCHANGED <<agentFrame, updates, agents>>

AgentNext == AgentUpdate \/ AgentSelect \/ AgentGreedyPolicy \/ AgentValueTable

SpecAgent == AgentInit /\ [][AgentNext]_vars

-----------------------------------------------------------------------------
(* The two programs: ai/train.py main() and ai/evaluation.py main() *)

MaxMainEpisodes == 2
MaxGames == 1

\* The training both programs run first.  train.py takes the exploration
\* arguments from the command line; evaluation.py passes 0.2, 0.999 and 0.01.
\* The rate only decides which branch of select_action() can be taken, and
\* like 0.2 * 0.999^k clamped at 0.01 the rates used here (1/2, then 1/4)
\* stay strictly between 0 and 1, so both branches stay possible.
MainArgs == [epsilon : {Frac(1, 2)}, epsilon_decay : {Frac(1, 2)},
             minimum_epsilon : {Frac(1, 4)}]

MainInit ==
    /\ EnvInit
    /\ \E args \in MainArgs, episodes \in 1..MaxMainEpisodes :
         params = [episodes |-> episodes, epsilon |-> args.epsilon,
                   epsilon_decay |-> args.epsilon_decay,
                   minimum_epsilon |-> args.minimum_epsilon]
    /\ agents = <<TabularAgent(params.epsilon), TabularAgent(params.epsilon)>>
    /\ wins = <<0, 0>>
    /\ episode = 0
    /\ pc = "start"
    /\ trajectories = << >>
    /\ observation = None
    /\ winner = None
    /\ credit = 0
    /\ updates = << >>
    /\ failure = ""
    /\ policies = << >>
    /\ evalst = << >>

\* [agent.greedy_policy() for agent in agents]
GreedyPolicies == <<GreedyPolicy(agents[1]), GreedyPolicy(agents[2])>>

\* KuhnPokerEnv(seed): a new environment object replaces the one trained on
EnvNew ==
    /\ player_cards' = <<"", "">>
    /\ history' = << >>
    /\ current_player' = 0
    /\ done' = FALSE
    /\ call' = [op |-> "init"]
    /\ ret' = [kind |-> "none"]

\* train_self_play() has returned: its locals and run_episode()'s are gone
TrainLocalsGone ==
    /\ episode' = 0
    /\ trajectories' = << >>
    /\ winner' = None
    /\ credit' = 0
    /\ updates' = << >>

\* train.py main() after training (agents, wins = train_self_play(...)): the
\* greedy policies are taken, a new environment is made and play_hand()
\* resets it.
PlayHand ==
    /\ pc = "done"
    /\ policies' = GreedyPolicies
    /\ TrainLocalsGone
    /\ \E seed \in {None, Some(0)} : EnvReset(seed)
    /\ observation' = ret'.obs
    /\ pc' = "play"
    /\ UNCHANGED <<agents, wins, failure, params, evalst>>

\* One pass of play_hand()'s while loop
PlayHandStep ==
    /\ pc = "play"
    /\ LET player == observation[1].player
           state_key == Key(observation[1])
           legal == LegalActions(history, done)
       IN  IF legal = << >> THEN
                \* legal[0] of the empty tuple
                /\ failure' = "IndexError"
                /\ pc' = "failed"
                /\ UNCHANGED <<envVars, observation>>
           ELSE
                /\ EnvStep(DictGet(policies[player + 1], state_key, legal[1]))
                /\ IF ret'.kind = "raise" THEN
                        /\ failure' = ret'.err
                        /\ pc' = "failed"
                        /\ UNCHANGED observation
                   ELSE
                        /\ observation' = ret'.obs
                        /\ IF ret'.done
                           THEN failure' = failure /\ pc' = "played"
                           ELSE IF ret'.obs = None
                           THEN failure' = "AssertionError" /\ pc' = "failed"
                           ELSE failure' = failure /\ pc' = "play"
    /\ UNCHANGED <<agents, wins, episode, trajectories, winner, credit, updates,
                   params, policies, evalst>>

\* evaluation.py main() after training (agents, _ = train_self_play(...),
\* the win counts are dropped): the greedy policies are taken and
\* evaluate_policy_against_random() starts for seat 0 on a new environment.
Evaluate ==
    /\ pc = "done"
    /\ policies' = GreedyPolicies
    /\ TrainLocalsGone
    /\ wins' = <<0, 0>>
    /\ observation' = None
    /\ \E games \in 1..MaxGames :
         evalst' = [seat |-> 0, games |-> games, game |-> 0, wins |-> 0]
    /\ EnvNew
    /\ pc' = "eval"
    /\ UNCHANGED <<agents, failure, params>>

\* The head of the loop over the games: env.reset()
EvalReset ==
    /\ pc = "eval"
    /\ evalst.game < evalst.games
    /\ EnvReset(None)
    /\ observation' = ret'.obs
    /\ pc' = "eval_act"
    /\ UNCHANGED <<agents, wins, episode, trajectories, winner, credit, updates,
                   failure, params, policies, evalst>>

\* The actions the evaluation may play: the policy's for its seat (default
\* legal_actions[0]), any legal one for the random opponent.
EvalChoices(player, seat, policy, state_key, legal_actions) ==
    IF player = seat
    THEN {DictGet(policy, state_key, legal_actions[1])}
    ELSE {legal_actions[i] : i \in 1..Len(legal_actions)}

\* One pass of the evaluation's while loop
EvalStep ==
    /\ pc = "eval_act"
    /\ LET player == observation[1].player
           legal_actions == LegalActions(history, done)
       IN  IF legal_actions = << >> THEN
                \* legal_actions[0] or choice() of the empty tuple
                /\ failure' = "IndexError"
                /\ pc' = "failed"
                /\ UNCHANGED <<envVars, observation, evalst>>
           ELSE
             \E action \in EvalChoices(player, evalst.seat, policies[evalst.seat + 1],
                                       Key(observation[1]), legal_actions) :
                /\ EnvStep(action)
                /\ IF ret'.kind = "raise" THEN
                        /\ failure' = ret'.err
                        /\ pc' = "failed"
                        /\ UNCHANGED <<observation, evalst>>
                   ELSE
                        /\ observation' = ret'.obs
                        /\ IF ret'.done THEN
                                /\ evalst' = [evalst EXCEPT
                                      !.wins = IF ret'.info.winner = Some(evalst.seat)
                                               THEN @ + 1 ELSE @,
                                      !.game = @ + 1]
                                /\ failure' = failure
                                /\ pc' = "eval"
                           ELSE
                                /\ evalst' = evalst
                                /\ IF ret'.obs = None
                                   THEN failure' = "RuntimeError" /\ pc' = "failed"
                                   ELSE failure' = failure /\ pc' = "eval_act"
    /\ UNCHANGED <<agents, wins, episode, trajectories, winner, credit, updates,
                   params, policies>>

\* evaluate_policy_against_random() returns (the rate wins / games is only
\* printed and is not kept here); main() then evaluates seat 1 on another
\* new environment, and ends after that.
EvalReturn ==
    /\ pc = "eval"
    /\ evalst.game >= evalst.games
    /\ IF evalst.seat = 0 THEN
            /\ evalst' = [evalst EXCEPT !.seat = 1, !.game = 0, !.wins = 0]
            /\ EnvNew
            /\ pc' = "eval"
       ELSE
            /\ pc' = "evaluated"
            /\ UNCHANGED <<envVars, evalst>>
    /\ UNCHANGED <<agents, wins, episode, trajectories, observation, winner, credit,
                   updates, failure, params, policies>>

MainNext ==
    \/ RunEpisode \/ EpisodeAct \/ CreditUpdate \/ AfterEpisode \/ TrainReturn
    \/ PlayHand \/ PlayHandStep
    \/ Evaluate \/ EvalReset \/ EvalStep \/ EvalReturn

SpecMain == MainInit /\ [][MainNext]_vars

-----------------------------------------------------------------------------
(* Properties of the environment, checked under Spec *)

\* reset() has dealt: player_cards holds two cards of the deck
Dealt == player_cards[1] \in DOMAIN CARD_ORDER /\ player_cards[2] \in DOMAIN CARD_ORDER

\* The last call was a step() that returned (it did not raise)
StepReturned == call.op = "step" /\ ret.kind = "return"

\* C1: in every state reached from reset(), legal_actions() is (check, bet)
\* for the histories "" and "p", (call, fold) for "b" and "pb", and () for
\* every other history; it is () exactly when the hand is terminal.  The
\* result is thereby fixed by the history, whatever the cards.
C1_LegalActions ==
    Dealt =>
        LET la == LegalActions(history, done) IN
        /\ history \in {<< >>, <<"p">>} => la = <<"check", "bet">>
        /\ history \in {<<"b">>, <<"p", "b">>} => la = <<"call", "fold">>
        /\ history \notin {<< >>, <<"p">>, <<"b">>, <<"p", "b">>} => la = << >>
        /\ la = << >> <=> done

C1_Witness ==
    /\ Dealt /\ ~done /\ history = <<"p", "b">>
    /\ LegalActions(history, done) = <<"call", "fold">>

\* C3: a fold played where it is legal (after "b" or "pb") returns with the
\* hand terminal, the other seat as winner and reward -1 for the folder,
\* whatever the cards.
C3_Fold ==
    [][(/\ call'.op = "step" /\ call'.action = "fold"
        /\ ~done /\ history \in {<<"b">>, <<"p", "b">>})
       => (/\ ret'.kind = "return" /\ ret'.done /\ done'
           /\ ret'.obs = None
           /\ ret'.info.winner = Some(1 - current_player)
           /\ ret'.reward = -1
           /\ history' = Append(history, "f"))]_vars

C3_Witness ==
    /\ StepReturned /\ call.action = "fold" /\ history = <<"p", "b", "f">>
    /\ player_cards[call.player + 1] = "K"
    /\ ret.info.winner = Some(1 - call.player) /\ ret.reward = -1

\* C4: the step that completes "pp", "bc" or "pbc" ends the hand and reports
\* as winner the seat holding the strictly higher card, for every deal.
C4_Showdown ==
    [][(/\ Dealt /\ ~done /\ call'.op = "step"
        /\ \/ history = <<"p">> /\ call'.action = "check"
           \/ history \in {<<"b">>, <<"p", "b">>} /\ call'.action = "call")
       => (/\ ret'.kind = "return" /\ ret'.done /\ done'
           /\ Len(history') = Len(history) + 1
           /\ \E w \in {0, 1} :
                /\ ret'.info.winner = Some(w)
                /\ CARD_ORDER[player_cards[w + 1]] > CARD_ORDER[player_cards[2 - w]])]_vars

C4_Witness ==
    /\ StepReturned /\ history = <<"p", "b", "c">> /\ player_cards = <<"Q", "K">>
    /\ done /\ ret.info.winner = Some(1)

\* C5: step() on a terminated hand raises RuntimeError; step() on a live hand
\* with an action outside legal_actions() raises ValueError; both leave the
\* history, the active player, the terminal flag and the cards as they were.
C5_StepErrors ==
    [][call'.op = "step" =>
        /\ done =>
              /\ ret' = [kind |-> "raise", err |-> "RuntimeError"]
              /\ UNCHANGED <<history, current_player, done, player_cards>>
        /\ (~done /\ ~InTuple(call'.action, LegalActions(history, done))) =>
              /\ ret' = [kind |-> "raise", err |-> "ValueError"]
              /\ UNCHANGED <<history, current_player, done, player_cards>>]_vars

C5_Witness ==
    /\ call.op = "step" /\ call.action = "check"
    /\ ret = [kind |-> "raise", err |-> "ValueError"]
    /\ Dealt /\ ~done /\ history = <<"b">>

\* C6 as claimed: in every state reached from reset(), the history has at
\* most 2 symbols.
C6_HistoryAtMost2 == Dealt => Len(history) <= 2

\* C6 as amended: in every state reached from reset(), the history has at
\* most 3 symbols, and a history of 3 symbols is check, bet, call or check,
\* bet, fold, with the hand over.
C6_HistoryAtMost3 ==
    Dealt =>
        /\ Len(history) <= 3
        /\ Len(history) = 3 => (done /\ history \in {<<"p", "b", "c">>, <<"p", "b", "f">>})

C6_Witness == Dealt /\ done /\ Len(history) = 3

\* C7: in every state reached from reset(), the history holds at most one
\* bet; a call or fold stands only directly after the bet and only as the
\* last symbol; and the hand is terminal exactly when the history ends in
\* call or fold or is two checks.
C7_Grammar ==
    Dealt =>
        /\ \A i \in 1..Len(history) : history[i] \in {"p", "b", "c", "f"}
        /\ Cardinality({i \in 1..Len(history) : history[i] = "b"}) <= 1
        /\ \A i \in 1..Len(history) :
              history[i] \in {"c", "f"} =>
                  i = Len(history) /\ i > 1 /\ history[i - 1] = "b"
        /\ done <=> \/ Len(history) > 0 /\ history[Len(history)] \in {"c", "f"}
                    \/ history = <<"p", "p">>

C7_Witness == Dealt /\ done /\ history = <<"b", "c">>

\* C8: in every live state reached from reset(), seat 0 acts on a history of
\* even length and seat 1 on one of odd length; an Observation returned by
\* reset() or step() names the seat that acts next; and a step() that does
\* not end the hand hands the turn to the other seat.
C8_Seat ==
    /\ (Dealt /\ ~done) => current_player = Len(history) % 2
    /\ (ret.kind = "return" /\ ret.obs # None) => ret.obs[1].player = current_player

C8_TurnPasses ==
    (call'.op = "step" /\ ret'.kind = "return" /\ ~ret'.done)
        => current_player' = 1 - current_player

C8_Alternation == []C8_Seat /\ [][C8_TurnPasses]_vars

C8_Witness ==
    /\ Dealt /\ ~done /\ history = <<"p", "b">> /\ current_player = 0
    /\ StepReturned /\ ret.obs # None /\ ret.obs[1].player = 0

\* C9: the reward step() returns is the acting player's: on a terminal step
\* +1 if the reported winner is the player who acted and -1 otherwise, and 0
\* on a step that does not end the hand.
C9_Reward ==
    StepReturned =>
        IF ret.done
        THEN ret.reward = (IF ret.info.winner = Some(call.player) THEN 1 ELSE -1)
        ELSE ret.reward = 0

C9_Witness ==
    /\ StepReturned /\ ret.done /\ call.player = 1 /\ call.action = "call"
    /\ ret.info.winner = Some(1) /\ ret.reward = 1

-----------------------------------------------------------------------------
(* Properties of run_episode(), checked under SpecTrain *)

\* The rewards run_episode() has passed to seat pid's agent in this episode
RewardsGiven(pid) == {updates[i].reward : i \in {j \in 1..Len(updates) : updates[j].pid = pid}}

\* C2: when run_episode() has finished a hand, exactly one seat is the
\* winner; every reward given to the winner's seat is +1 and every reward
\* given to the other seat is -1, each seat was given one, and the two
\* seats' rewards sum to 0.
C2_ZeroSum ==
    pc = "after" =>
        /\ winner \in {Some(0), Some(1)}
        /\ ret.info.winner = winner
        /\ RewardsGiven(winner[1]) = {1}
        /\ RewardsGiven(1 - winner[1]) = {-1}
        /\ \A r0 \in RewardsGiven(0) : \A r1 \in RewardsGiven(1) : r0 + r1 = 0

C2_Witness ==
    /\ pc = "after" /\ winner = Some(1) /\ history = <<"p", "b", "c">>
    /\ Len(updates) = 3 /\ RewardsGiven(0) = {-1} /\ RewardsGiven(1) = {1}

\* C10: a step() that returns gives no Observation exactly when it reports
\* the hand terminal, and names a winner in {0, 1} exactly when it reports
\* the hand terminal (otherwise the winner is None); run_episode() never
\* fails for a missing winner or for a missing Observation.
C10_Protocol ==
    /\ StepReturned =>
          /\ ret.obs = None <=> ret.done
          /\ ret.info.winner \in {Some(0), Some(1)} <=> ret.done
          /\ ret.info.winner = None <=> ~ret.done
          /\ ret.done <=> done
    /\ failure \notin {"MissingWinner", "NoneObservation"}

C10_Witness ==
    /\ pc = "credit" /\ StepReturned /\ ret.done /\ ret.obs = None
    /\ ret.info.winner = Some(0) /\ winner = Some(0) /\ failure = ""

\* The action a history symbol stands for
ActionOfSymbol(sym) ==
    CASE sym = "p" -> "check" [] sym = "b" -> "bet" [] sym = "c" -> "call" [] sym = "f" -> "fold"

\* The (state-key, action) pairs seat pid met in the hand played so far,
\* read off the environment: the i-th symbol of the history was played by
\* seat (i - 1) mod 2 on the history before it, holding that seat's card.
PairsPlayed(pid) ==
    LET all == [i \in 1..Len(history) |->
                  [pid |-> (i - 1) % 2,
                   pair |-> <<Key(Observation((i - 1) % 2, player_cards[((i - 1) % 2) + 1],
                                              SubSeq(history, 1, i - 1))),
                              ActionOfSymbol(history[i])>>]]
        own == SelectSeq(all, LAMBDA e : e.pid = pid)
    IN  [i \in 1..Len(own) |-> own[i].pair]

\* The update() calls owed for the finished hand: seat 0's pairs, then seat
\* 1's, each with +1 for the winning seat and -1 for the losing one
UpdatesOwed ==
    LET owed(pid) ==
            [i \in 1..Len(PairsPlayed(pid)) |->
                [pid |-> pid, state_key |-> PairsPlayed(pid)[i][1],
                 action |-> PairsPlayed(pid)[i][2],
                 reward |-> IF ret.info.winner = Some(pid) THEN 1 ELSE -1]]
    IN  owed(0) \o owed(1)

\* The visit count an agent holds for a pair, 0 if it holds none
CountOf(agent, state_key, action) ==
    IF state_key \in DOMAIN agent.counts /\ action \in DOMAIN agent.counts[state_key]
    THEN agent.counts[state_key][action] ELSE 0

\* Every pair for which either agent state holds a count
CountedPairs(a1, a2) ==
    {<<k, a>> : k \in DOMAIN a1.counts, a \in {"check", "bet", "call", "fold"}}
    \cup {<<k, a>> : k \in DOMAIN a2.counts, a \in {"check", "bet", "call", "fold"}}

C11_State ==
    /\ pc = "act" =>
          /\ updates = << >>
          /\ trajectories = <<PairsPlayed(0), PairsPlayed(1)>>
    /\ pc = "credit" => updates = SubSeq(UpdatesOwed, 1, credit)
    /\ pc = "after" => updates = UpdatesOwed

C11_Step ==
    /\ \A i \in 1..2 :
          agents'[i].counts # agents[i].counts =>
              /\ pc = "credit" /\ done
              /\ Len(updates') = Len(updates) + 1
              /\ LET u == updates'[Len(updates')] IN
                  /\ u.pid = i - 1
                  /\ \A p \in CountedPairs(agents[i], agents'[i]) :
                        CountOf(agents'[i], p[1], p[2]) =
                            CountOf(agents[i], p[1], p[2])
                            + (IF p = <<u.state_key, u.action>> THEN 1 ELSE 0)
    /\ (pc' \in {"credit", "after"} /\ Len(updates') = Len(updates) + 1) =>
          agents'[updates'[Len(updates')].pid + 1].counts
              # agents[updates'[Len(updates')].pid + 1].counts

\* C11: while the hand is played no update() is made; once it is over the
\* update() calls are exactly one for each pair recorded during the whole
\* hand, seat 0's pairs then seat 1's, each made on its own seat's agent
\* with +1 if that seat won and -1 if it lost; no visit count changes in
\* any other way.
C11_Credit == []C11_State /\ [][C11_Step]_vars

C11_Witness ==
    /\ pc = "after" /\ history = <<"p", "b", "f">> /\ winner = Some(1)
    /\ Len(updates) = 3
    /\ updates[1] = [pid |-> 0, state_key |-> Key(Observation(0, player_cards[1], << >>)),
                     action |-> "check", reward |-> -1]
    /\ CountOf(agents[1], Key(Observation(0, player_cards[1], << >>)), "check") >= 1

-----------------------------------------------------------------------------
(* Properties of the Observation, checked under Spec *)

\* The deal with the acting seat cp holding own and the other seat holding c
DealWith(cp, own, c) == IF cp = 0 THEN <<own, c>> ELSE <<c, own>>

\* C12: an Observation returned by reset() or step() holds the acting seat,
\* that seat's own card and the history, and not the other seat's card; it
\* and its key are the same for every card the other seat could hold
\* instead, and the other seat's card does not occur in the key.
C12_OwnCard ==
    (Dealt /\ ret.kind = "return" /\ ret.obs # None) =>
        LET o == ret.obs[1]
            own == player_cards[current_player + 1]
            opp == player_cards[2 - current_player]
        IN  /\ o = [player |-> current_player, card |-> own, history |-> history]
            /\ o.card # opp
            /\ \A i \in 1..Len(Key(o)) : Key(o)[i] # opp
            /\ \A c \in {cards[i] : i \in 1..Len(cards)} \ {own} :
                  /\ EnvObservation(current_player, DealWith(current_player, own, c), history) = o
                  /\ Key(EnvObservation(current_player, DealWith(current_player, own, c),
                                        history)) = Key(o)

C12_Witness ==
    /\ Dealt /\ StepReturned /\ ret.obs # None
    /\ player_cards = <<"J", "K">> /\ history = <<"p">> /\ current_player = 1
    /\ ret.obs[1] = [player |-> 1, card |-> "K", history |-> <<"p">>]
    /\ Key(ret.obs[1]) = <<"P", "1", ":", "K", ":", "p">>

-----------------------------------------------------------------------------
(* Properties of the exploration decay, checked under SpecTrain *)

FracLeq(x, y) == ~FracLess(y, x)

\* C13 as claimed: across the episodes no agent's exploration rate is ever
\* greater after an episode than before it, and after an episode it is not
\* below the floor.
C13_NonIncreasing ==
    /\ [](episode >= 1 => \A i \in 1..2 : FracLeq(params.minimum_epsilon, agents[i].epsilon))
    /\ [][\A i \in 1..2 : FracLeq(agents'[i].epsilon, agents[i].epsilon)]_vars

C13_FloorState ==
    (episode >= 1 \/ FracLeq(params.minimum_epsilon, params.epsilon)) =>
        \A i \in 1..2 : FracLeq(params.minimum_epsilon, agents[i].epsilon)

C13_DecayStep ==
    \A i \in 1..2 :
        /\ FracLess(agents[i].epsilon, agents'[i].epsilon) =>
              /\ episode = 0
              /\ FracLess(params.epsilon, params.minimum_epsilon)
              /\ agents'[i].epsilon = params.minimum_epsilon
        /\ FracLeq(params.minimum_epsilon, params.epsilon) =>
              FracLeq(agents'[i].epsilon, agents[i].epsilon)

\* C13 as amended: after every episode each agent's exploration rate is at
\* least the floor; the rate rises only in the first episode's decay and
\* only when the floor exceeds the initial rate, and then to the floor; when
\* the floor does not exceed the initial rate the rate never rises and is
\* never below the floor.
C13_Clamped == []C13_FloorState /\ [][C13_DecayStep]_vars

C13_Witness ==
    /\ pc = "start" /\ episode = 2
    /\ params.epsilon = Frac(1, 2) /\ params.epsilon_decay = Frac(1, 2)
    /\ params.minimum_epsilon = Frac(1, 4)
    /\ agents[1].epsilon = Frac(1, 4) /\ agents[2].epsilon = Frac(1, 4)

\* x to the power k, k >= 0
RECURSIVE FracPow(_, _)
FracPow(x, k) == IF k = 0 THEN One ELSE FracMul(x, FracPow(x, k - 1))

\* max(floor, initial * decay^k)
ClosedForm(k) ==
    FracMax(params.minimum_epsilon, FracMul(params.epsilon, FracPow(params.epsilon_decay, k)))

\* C14 as claimed: after k completed episodes, k >= 0, each agent's
\* exploration rate is max(floor, initial * decay^k).
C14_ClosedFormFrom0 == \A i \in 1..2 : agents[i].epsilon = ClosedForm(episode)

\* C14 as amended: after k >= 1 completed episodes each agent's exploration
\* rate is max(floor, initial * decay^k); after 0 episodes it is the initial
\* rate.
C14_ClosedFormFrom1 ==
    \A i \in 1..2 :
        agents[i].epsilon = IF episode = 0 THEN params.epsilon ELSE ClosedForm(episode)

C14_Witness ==
    /\ pc = "start" /\ episode = 2
    /\ params.epsilon = Frac(1, 1) /\ params.epsilon_decay = Frac(1, 2)
    /\ params.minimum_epsilon = Frac(0, 1)
    /\ agents[1].epsilon = Frac(1, 4) /\ agents[2].epsilon = Frac(1, 4)

-----------------------------------------------------------------------------
(* Properties of the two agents' tables, checked under SpecTrain *)

\* An agent's tables
Tables(agent) == <<agent.values, agent.counts>>

\* The seat a state key names: the character after "P"
SeatOfKey(state_key) == state_key[2]

C16_OwnKeys ==
    \A i \in 1..2 :
        \A k \in DOMAIN agents[i].values \cup DOMAIN agents[i].counts :
            SeatOfKey(k) = IntStr(i - 1)

C16_OneTable ==
    /\ ~(Tables(agents'[1]) # Tables(agents[1]) /\ Tables(agents'[2]) # Tables(agents[2]))
    /\ (pc = "credit" /\ Len(updates') = Len(updates) + 1) =>
          LET u == updates'[Len(updates')] IN
          /\ SeatOfKey(u.state_key) = IntStr(u.pid)
          /\ Tables(agents'[2 - u.pid]) = Tables(agents[2 - u.pid])
          /\ Tables(agents'[u.pid + 1]) # Tables(agents[u.pid + 1])

\* C16: the table of seat i's agent holds only state keys of seat i
\* (P<i>:...); no step changes both agents' tables, and an update for one
\* seat changes that seat's table and leaves the other seat's as it was.
C16_Disjoint == []C16_OwnKeys /\ [][C16_OneTable]_vars

C16_Witness ==
    /\ pc = "after" /\ episode = 1
    /\ Cardinality(DOMAIN agents[1].counts) >= 2
    /\ Cardinality(DOMAIN agents[2].counts) >= 2
    /\ \A k \in DOMAIN agents[1].counts : SeatOfKey(k) = "0"
    /\ \A k \in DOMAIN agents[2].counts : SeatOfKey(k) = "1"

-----------------------------------------------------------------------------
(* Properties of the agent, checked under SpecAgent *)

\* C15: select_action(), greedy_policy() and value_table() leave the agent's
\* table as it was: the same state keys, and for each the same actions with
\* the same values and counts.
C15_OnlyUpdateMutates ==
    [][call'.op \in {"select_action", "greedy_policy", "value_table"} =>
        /\ DOMAIN agents'[1].values = DOMAIN agents[1].values
        /\ agents'[1].values = agents[1].values
        /\ agents'[1].counts = agents[1].counts]_vars

\* The stored average return of an action in the state of the last
\* select_action() call, 0.0 for an action the table does not hold
StoredValue(action) ==
    DictGet(DictGet(agents[1].values, call.state_key, EmptyDict), action, Zero)

\* C18: select_action() raises ValueError for an empty legal_actions and
\* otherwise returns one of them; an agent of exploration rate 0 never
\* explores; and when it did not explore, the action returned has the
\* greatest stored value among the legal ones (unseen ones counting 0.0) and
\* is the first of that value in the order supplied.
C18_Select ==
    call.op = "select_action" =>
        /\ call.legal = << >> => ret = [kind |-> "raise", err |-> "ValueError"]
        /\ call.legal # << >> => (ret.kind = "return" /\ InTuple(ret.action, call.legal))
        /\ agents[1].epsilon = Zero => ~call.explored
        /\ (call.legal # << >> /\ ~call.explored) =>
              \E i \in 1..Len(call.legal) :
                  /\ call.legal[i] = ret.action
                  /\ \A j \in 1..Len(call.legal) :
                        FracLeq(StoredValue(call.legal[j]), StoredValue(call.legal[i]))
                  /\ \A j \in 1..(i - 1) :
                        FracLess(StoredValue(call.legal[j]), StoredValue(call.legal[i]))

C18_Witness ==
    /\ call.op = "select_action" /\ ~call.explored /\ call.legal = <<"bet", "check">>
    /\ ret = [kind |-> "return", action |-> "bet"]
    /\ call.state_key \in DOMAIN agents[1].values
    /\ DOMAIN agents[1].values[call.state_key] = {"bet", "check"}
    /\ StoredValue("bet") = StoredValue("check")

\* The update() calls made so far for a pair: their positions in the log
CallsFor(state_key, action) ==
    {i \in 1..Len(updates) : updates[i].state_key = state_key /\ updates[i].action = action}

\* The sum of the rewards passed in the calls at the positions in S
RECURSIVE RewardSum(_)
RewardSum(S) ==
    IF S = {} THEN 0
    ELSE LET i == CHOOSE x \in S : TRUE IN updates[i].reward + RewardSum(S \ {i})

\* The calls log[i..] made again, in order, on the agent given
RECURSIVE Replay(_, _, _)
Replay(agent, log, i) ==
    IF i > Len(log) THEN agent
    ELSE Replay(Update(agent, log[i].state_key, log[i].action, log[i].reward), log, i + 1)

\* C19: for every pair the visit count is the number of update() calls
\* made for it and the stored value is the arithmetic mean of the rewards
\* of those calls, which lies in [-1, 1]; a pair never updated has no
\* stored value; and the same calls made again on a fresh agent give the
\* same counts and values.
C19_Mean ==
    /\ \A k \in AgentKeys, a \in AgentActions :
          LET n == Cardinality(CallsFor(k, a)) IN
          /\ CountOf(agents[1], k, a) = n
          /\ n = 0 => (k \notin DOMAIN agents[1].values \/ a \notin DOMAIN agents[1].values[k])
          /\ n > 0 =>
                /\ k \in DOMAIN agents[1].values /\ a \in DOMAIN agents[1].values[k]
                /\ agents[1].values[k][a] = Frac(RewardSum(CallsFor(k, a)), n)
                /\ FracLeq(Frac(-1, 1), agents[1].values[k][a])
                /\ FracLeq(agents[1].values[k][a], Frac(1, 1))
    /\ DOMAIN agents[1].counts \subseteq AgentKeys
    /\ LET again == Replay(TabularAgent(params.epsilon), updates, 1) IN
          /\ again.counts = agents[1].counts
          /\ \A k \in DOMAIN agents[1].counts : again.values[k] = agents[1].values[k]

C19_Witness ==
    /\ Len(updates) = 3
    /\ \E k \in AgentKeys, a \in AgentActions :
          /\ CountOf(agents[1], k, a) = 3
          /\ agents[1].values[k][a] = Frac(1, 3)

-----------------------------------------------------------------------------
(* Properties of the two programs, checked under SpecMain *)

\* The history a state key names: what follows "P<seat>:<card>:"
HistoryOfKey(state_key) == SubSeq(state_key, 6, Len(state_key))

\* Every action of the greedy policy is legal in the state its key names
PolicyLegal(policy) ==
    \A state_key \in DOMAIN policy :
        InTuple(policy[state_key], LegalActions(HistoryOfKey(state_key), FALSE))

\* C17: whatever training has been done, every action greedy_policy() returns
\* for a state key is legal in that state, and neither play_hand() nor the
\* evaluation driven by the greedy policies ever makes step() raise (no
\* illegal-action error, nor any other failure).
C17_PolicyLegal ==
    /\ \A i \in 1..2 : PolicyLegal(GreedyPolicy(agents[i]))
    /\ \A i \in 1..Len(policies) : PolicyLegal(policies[i])
    /\ ret.kind # "raise"
    /\ failure = ""

\* play_hand() has ended a hand whose last action was taken from the greedy
\* policy and is not the default legal[0]
C17_Witness ==
    /\ pc = "played"
    /\ call.op = "step"
    /\ LET before == SubSeq(history, 1, Len(history) - 1)
           state_key == Key(Observation(call.player, player_cards[call.player + 1], before))
       IN  /\ state_key \in DOMAIN policies[call.player + 1]
           /\ policies[call.player + 1][state_key] = call.action
           /\ call.action # LegalActions(before, FALSE)[1]

\* The positions inside the while loops of run_episode(), play_hand() and
\* evaluate_policy_against_random()
LoopPcs == {"act", "play", "eval_act"}

\* Where each loop goes when step() reports done
LoopExit(p) == IF p = "act" THEN "credit" ELSE IF p = "play" THEN "played" ELSE "eval"

\* Inside a loop the hand is dealt and not over, fewer than 3 actions have
\* been played and there is an observation and a legal action to go on with.
C20_InLoop ==
    pc \in LoopPcs =>
        /\ Dealt
        /\ ~done
        /\ Len(history) <= 2
        /\ observation # None
        /\ LegalActions(history, done) # << >>

\* No hand holds more than 3 actions, a hand of 3 is over, and no program
\* has ended in a failure.
C20_HandBound ==
    /\ Len(history) <= 3
    /\ Len(history) = 3 => done
    /\ pc # "failed"

\* Every pass of a loop is one step() call that returns and adds one action
\* to the history; the loop is left exactly when step() reports done.
C20_Pass ==
    pc \in LoopPcs =>
        /\ call'.op = "step"
        /\ ret'.kind = "return"
        /\ Len(history') = Len(history) + 1
        /\ pc' = IF done' THEN LoopExit(pc) ELSE pc

\* A hand is only begun when the one before it is over: an episode is counted
\* once, after its hand has ended and its credit is given, and reset() is
\* called for the first hand or after a finished one.
C20_Sequential ==
    /\ (pc # "done" /\ episode' # episode) =>
            episode' = episode + 1 /\ pc = "after" /\ done
    /\ (pc = "start" /\ pc' = "act") => (episode = 0 \/ done)
    /\ (pc = "eval" /\ pc' = "eval_act") => (evalst.game = 0 \/ done)

\* C20: every hand terminates.  From reset(), whatever the deal and the legal
\* actions chosen, the terminal state is reached after at most 3 step()
\* calls: each pass of the loops of run_episode(), play_hand() and the
\* evaluation is one returning step() call that lengthens the history by one,
\* the history never exceeds 3, the loops exit, and an episode is complete
\* before the next begins.
C20_Terminates == [](C20_InLoop /\ C20_HandBound) /\ [][C20_Pass /\ C20_Sequential]_vars

\* the evaluation has ended and its last hand took 3 step() calls
C20_Witness ==
    /\ pc = "evaluated"
    /\ evalst.game = evalst.games
    /\ done
    /\ Len(history) = 3

=============================================================================
